---- MODULE Spec2Model ----
(***************************************************************************)
(* Pairing-session lifecycle and relay engine of share-it (src/app.py).    *)
(*                                                                         *)
(* The server is one asyncio event loop: code between two awaits runs      *)
(* atomically, so every action below is the stretch of a handler from one  *)
(* suspension point to the next.  The suspension points that separate      *)
(* observable effects are: receive_json (top of the loop) and the          *)
(* otp_registered reply of the receiver branch (line 131), after which the *)
(* handler reads the session again (line 137).                             *)
(*                                                                         *)
(* Time is a discrete clock `now`; DelayTicks and TtlTicks are the grace   *)
(* delay (10 s) and the OTP lifetime (10 min) on that scaled clock.        *)
(* A connection handles a message only while its transport is open; a      *)
(* closed transport makes receive_json raise WebSocketDisconnect.          *)
(*                                                                         *)
(* A behaviour runs under one exploration budget (`budget`), fixed at its  *)
(* start: many messages of every type on a frozen clock, or fewer messages *)
(* with the clock and disconnects, or one message with OTP re-issue.       *)
(***************************************************************************)
EXTENDS Integers, Sequences, FiniteSets, TLC

\* ---------------------------------------------------------------- bounds
NumConns == 2
NumClients == 2
NumOtps == 2
MaxMsgs == 3
MaxIssued == 2
MaxTime == 4
DelayTicks == 1
TtlTicks == 2

Conns == 1 .. NumConns
ClientIds == 1 .. NumClients
OTPs == 1 .. NumOtps

\* Python None of sender_id / receiver_id (client ids are 1 .. NumClients).
None == 0

\* A field absent from an inbound JSON object.
Missing == "missing"

VARIABLES
  budget,             \* exploration budget of the behaviour
  now,                \* datetime.now(), in ticks
  active_transfers,   \* dict otp -> session
  active_connections, \* manager.active_connections: dict client_id -> websocket
  pc,                 \* position of each connection's websocket_endpoint
  client_id,          \* the client_id path parameter of each connection
  clientClosed,       \* the client has closed the transport of the connection
  pend,               \* local `otp` of a handler suspended at line 131, with
                      \* the number of the message it is handling
  outbox,             \* messages written to each websocket, in order
  tasks,              \* asyncio tasks created at line 195, not yet run
  removals,           \* remove_transfer_after_delay tasks, sleeping
  bg,                 \* background cleanup tasks added at line 96, not yet run
  issued,             \* number of sessions created so far
  msgs                \* number of inbound messages received so far

vars == <<budget, now, active_transfers, active_connections, pc, client_id,
          clientClosed, pend,
          outbox, tasks, removals, bg, issued, msgs>>

ClientOf(c) == client_id[c]

AllTypes ==
  {"register_otp", "file_metadata", "file_chunk", "transfer_complete", "ping", ""}

\* Budgets: messages received and their types, sessions created, last tick
\* of the clock.
RelayBudget ==
  [msgs |-> MaxMsgs, types |-> AllTypes, issued |-> 1, horizon |-> 0]

LifecycleBudget ==
  [msgs |-> MaxMsgs - 1, types |-> {"register_otp", "file_metadata"},
   issued |-> 1, horizon |-> MaxTime]

ExpiryBudget ==
  [msgs |-> MaxMsgs - 2, types |-> {"register_otp", "file_metadata"},
   issued |-> MaxIssued, horizon |-> MaxTime]

Budgets == {RelayBudget, LifecycleBudget, ExpiryBudget}

\* ------------------------------------------------------- dict operations
Del(d, k) == [x \in (DOMAIN d) \ {k} |-> d[x]]

Put(d, k, v) == [x \in (DOMAIN d) \cup {k} |-> IF x = k THEN v ELSE d[x]]

EmptyDict == [x \in {} |-> 0]

\* ------------------------------------------------------------- messages
\* Inbound JSON objects a client can send.  `kind` is "dict" for a JSON
\* object and "other" for any other JSON value (a list, a number).
Msg(type, otp, role, metadata, chunk, file_id, is_last) ==
  [kind |-> "dict", type |-> type, otp |-> otp, role |-> role,
   metadata |-> metadata, chunk |-> chunk, file_id |-> file_id,
   is_last |-> is_last]

RegisterMsgs ==
  {Msg("register_otp", o, r, Missing, Missing, Missing, Missing) :
     o \in OTPs, r \in {"sender", "receiver"}}

MetadataMsgs ==
  {Msg("file_metadata", o, Missing, md, Missing, Missing, Missing) :
     o \in OTPs, md \in {"x.txt", Missing}}

ChunkFields ==
  { <<"c1", "f1", "true">>, <<"c2", "f2", "false">>, <<"c1", "f1", Missing>>,
    <<Missing, "f1", "true">>, <<"c1", Missing, "true">> }

ChunkMsgs ==
  {Msg("file_chunk", o, Missing, Missing, f[1], f[2], f[3]) :
     o \in OTPs, f \in ChunkFields}

CompleteMsgs ==
  {Msg("transfer_complete", o, Missing, Missing, Missing, Missing, Missing) :
     o \in OTPs}

OtherMsgs ==
  { Msg("ping", 1, Missing, Missing, Missing, Missing, Missing),
    [Msg("", 1, Missing, Missing, Missing, Missing, Missing)
       EXCEPT !.kind = "other"] }

Msgs == RegisterMsgs \cup MetadataMsgs \cup ChunkMsgs \cup CompleteMsgs
          \cup OtherMsgs

\* An outbound message as written to a websocket.  src, seq and otp are
\* history tags (the connection whose handler or disconnect caused it, the
\* number of the inbound message, the session); the other fields are the
\* JSON fields of the message.
Out(type, src, seq, otp, metadata, chunk, file_id, is_last) ==
  [type |-> type, src |-> src, seq |-> seq, otp |-> otp, role |-> Missing,
   metadata |-> metadata, chunk |-> chunk, file_id |-> file_id,
   is_last |-> is_last]

Plain(type, src, seq, otp) ==
  Out(type, src, seq, otp, Missing, Missing, Missing, Missing)

\* otp_registered; `role` stands for the role its message text names.
Registered(src, seq, otp, role) ==
  [Plain("otp_registered", src, seq, otp) EXCEPT !.role = role]

\* data.get('is_last', False)
IsLastOf(m) == IF m.is_last = Missing THEN "false" ELSE m.is_last

\* --------------------------------------------------------- session store
\* generate_otp: any string of the keyspace.  OTPs are numbered in order of
\* first issue (any other draw is a renaming of one of these), so the n-th
\* draw is one of the first n.
generate_otp(n) == {o \in OTPs : o <= n}

\* The session create_otp stores (status and created_at are never read).
NewSession(t, i) ==
  [sender_id |-> None, receiver_id |-> None, files |-> <<>>,
   expires_at |-> t + TtlTicks, inst |-> i]

\* A sweep that also removes a session at its expiry instant.
ExpiredAtDeadline(s, t) == t >= s.expires_at

\* current_time > data['expires_at']
Expired(s, t) == t > s.expires_at

cleanup_expired_transfers(store, t) ==
  [o \in {k \in DOMAIN store : ~Expired(store[k], t)} |-> store[o]]

\* ---------------------------------------------------- connection manager
connect(reg, client, c) == Put(reg, client, c)

disconnect(reg, client) == IF client \in DOMAIN reg THEN Del(reg, client) ELSE reg

\* A write to websocket w fails when its transport is closed.
Writable(w) == ~clientClosed[w] /\ pc[w] # "done"

\* A write that jumps the queue of the websocket.
DeliverFirst(ob, w, m) == [ob EXCEPT ![w] = <<m>> \o @]

\* send_json on websocket w.
Deliver(ob, w, m) == [ob EXCEPT ![w] = Append(@, m)]

\* A send that writes to the registered websocket whatever its state.
send_unchecked(ob, reg, client, m) ==
  IF client \in DOMAIN reg THEN Deliver(ob, reg[client], m) ELSE ob

\* send_personal_message: no-op for an unknown client id; a failing send is
\* logged and swallowed.
send_personal_message(ob, reg, client, m) ==
  IF client \in DOMAIN reg /\ Writable(reg[client])
    THEN Deliver(ob, reg[client], m)
    ELSE ob

\* No handler of the connection is suspended.
NoPend == [otp |-> None, seq |-> None]

\* ------------------------------------------------------------------ Init
Init ==
  /\ budget \in Budgets
  /\ now = 0
  /\ active_transfers = EmptyDict
  /\ active_connections = EmptyDict
  /\ pc = [c \in Conns |-> "new"]
  /\ client_id = [c \in Conns |-> None]
  /\ clientClosed = [c \in Conns |-> FALSE]
  /\ pend = [c \in Conns |-> NoPend]
  /\ outbox = [c \in Conns |-> <<>>]
  /\ tasks = {}
  /\ removals = {}
  /\ bg = 0
  /\ issued = 0
  /\ msgs = 0

\* --------------------------------------------------------------- actions
\* An issuance that stores its session without sweeping first.
create_otp_unswept(o) ==
  /\ issued < budget.issued
  /\ o \in generate_otp(issued + 1)
  /\ active_transfers' = Put(active_transfers, o, NewSession(now, issued + 1))
  /\ issued' = issued + 1
  /\ bg' = bg + 1
  /\ UNCHANGED <<budget, client_id, now, active_connections, pc, clientClosed, pend, outbox,
                 tasks, removals, msgs>>

\* POST /generate_otp: sweep, draw an OTP, store the session under it, and
\* schedule one more sweep as a background task.
create_otp(o) ==
  /\ issued < budget.issued
  /\ o \in generate_otp(issued + 1)
  /\ active_transfers' =
       Put(cleanup_expired_transfers(active_transfers, now), o,
           NewSession(now, issued + 1))
  /\ issued' = issued + 1
  /\ bg' = bg + 1
  /\ UNCHANGED <<budget, client_id, now, active_connections, pc, clientClosed, pend, outbox,
                 tasks, removals, msgs>>

\* The background task of line 96.
BackgroundCleanup ==
  /\ bg > 0
  /\ active_transfers' = cleanup_expired_transfers(active_transfers, now)
  /\ bg' = bg - 1
  /\ UNCHANGED <<budget, client_id, now, active_connections, pc, clientClosed, pend, outbox,
                 tasks, removals, issued, msgs>>

\* websocket_endpoint up to the first receive_json: accept and register.
\* Client ids are taken in order of first use (any other choice is a
\* renaming of one of these).
Connect(c, id) ==
  /\ pc[c] = "new"
  /\ \A d \in Conns : d < c => pc[d] # "new"
  /\ \A i \in ClientIds : i < id => \E d \in Conns : client_id[d] = i
  /\ client_id' = [client_id EXCEPT ![c] = id]
  /\ active_connections' = connect(active_connections, id, c)
  /\ pc' = [pc EXCEPT ![c] = "recv"]
  /\ UNCHANGED <<budget, now, active_transfers, clientClosed, pend, outbox, tasks,
                 removals, bg, issued, msgs>>

\* receive_json returned message m on connection c.
Receiving(c, m) ==
  /\ pc[c] = "recv"
  /\ ~clientClosed[c]
  /\ msgs < budget.msgs
  /\ m.type \in budget.types

\* except Exception (lines 202-204): unregister the client id and return.
Crash(c) ==
  /\ active_connections' = disconnect(active_connections, ClientOf(c))
  /\ pc' = [pc EXCEPT ![c] = "done"]

\* An unknown otp that is skipped without a reply.
RegisterUnknownSilent(c, m) ==
  /\ Receiving(c, m)
  /\ m.kind = "dict" /\ m.type = "register_otp"
  /\ m.otp \notin DOMAIN active_transfers
  /\ msgs' = msgs + 1
  /\ UNCHANGED <<budget, client_id, now, active_transfers, active_connections,
                 pc, clientClosed, pend, outbox, tasks, removals, bg, issued>>

\* register_otp with an otp that is not in the store (lines 116-121).
RegisterUnknown(c, m) ==
  /\ Receiving(c, m)
  /\ m.kind = "dict" /\ m.type = "register_otp"
  /\ m.otp \notin DOMAIN active_transfers
  /\ msgs' = msgs + 1
  /\ outbox' = Deliver(outbox, c, Plain("error", c, msgs + 1, m.otp))
  /\ UNCHANGED <<budget, client_id, now, active_transfers, active_connections, pc, clientClosed,
                 pend, tasks, removals, bg, issued>>

\* register_otp, role sender (lines 123-128).
RegisterSender(c, m) ==
  /\ Receiving(c, m)
  /\ m.kind = "dict" /\ m.type = "register_otp" /\ m.role = "sender"
  /\ m.otp \in DOMAIN active_transfers
  /\ msgs' = msgs + 1
  /\ active_transfers' =
       [active_transfers EXCEPT ![m.otp].sender_id = ClientOf(c)]
  /\ outbox' = Deliver(outbox, c,
                 Registered(c, msgs + 1, m.otp, "sender"))
  /\ UNCHANGED <<budget, client_id, now, active_connections, pc, clientClosed, pend, tasks,
                 removals, bg, issued>>

\* register_otp, role receiver, up to the await of line 131.
RegisterReceiver(c, m) ==
  /\ Receiving(c, m)
  /\ m.kind = "dict" /\ m.type = "register_otp" /\ m.role = "receiver"
  /\ m.otp \in DOMAIN active_transfers
  /\ msgs' = msgs + 1
  /\ active_transfers' =
       [active_transfers EXCEPT ![m.otp].receiver_id = ClientOf(c)]
  /\ outbox' = Deliver(outbox, c,
                 Registered(c, msgs + 1, m.otp, "receiver"))
  /\ pc' = [pc EXCEPT ![c] = "notify"]
  /\ pend' = [pend EXCEPT ![c] = [otp |-> m.otp, seq |-> msgs + 1]]
  /\ UNCHANGED <<budget, client_id, now, active_connections, clientClosed, tasks, removals, bg,
                 issued>>

\* The receiver branch after the await (lines 137-142): the session is read
\* again; a KeyError is caught by except Exception.
NotifySender(c) ==
  /\ pc[c] = "notify"
  /\ IF pend[c].otp \in DOMAIN active_transfers
       THEN /\ LET sender_id == active_transfers[pend[c].otp].sender_id
               IN outbox' =
                    IF sender_id # None
                      THEN send_personal_message(outbox, active_connections,
                             sender_id,
                             Plain("receiver_connected", c, pend[c].seq,
                                   pend[c].otp))
                      ELSE outbox
            /\ pc' = [pc EXCEPT ![c] = "recv"]
            /\ UNCHANGED active_connections
       ELSE /\ Crash(c)
            /\ UNCHANGED outbox
  /\ pend' = [pend EXCEPT ![c] = NoPend]
  /\ UNCHANGED <<budget, client_id, now, active_transfers, clientClosed, tasks, removals, bg,
                 issued, msgs>>

\* file_metadata (lines 144-155).  data['metadata'] of a message without
\* that field raises KeyError before anything is appended.
FileMetadata(c, m) ==
  /\ Receiving(c, m)
  /\ m.kind = "dict" /\ m.type = "file_metadata"
  /\ m.otp \in DOMAIN active_transfers
  /\ msgs' = msgs + 1
  /\ IF m.metadata = Missing
       THEN /\ Crash(c)
            /\ UNCHANGED <<active_transfers, outbox>>
       ELSE /\ active_transfers' =
                 [active_transfers EXCEPT ![m.otp].files = Append(@, m.metadata)]
            /\ LET receiver_id == active_transfers[m.otp].receiver_id
               IN outbox' =
                    IF receiver_id # None
                      THEN send_personal_message(outbox, active_connections,
                             receiver_id,
                             Out("file_incoming", c, msgs + 1, m.otp,
                                 m.metadata, Missing, Missing, Missing))
                      ELSE outbox
            /\ UNCHANGED <<active_connections, pc>>
  /\ UNCHANGED <<budget, client_id, now, clientClosed, pend, tasks, removals, bg, issued>>

\* receiver_id if client_id == sender_id else sender_id (lines 164, 180).
target_id(s, client) ==
  IF client = s.sender_id THEN s.receiver_id ELSE s.sender_id

\* A forward that leaves the last-chunk flag out.
ForwardChunkNoFlag(c, seq, m) ==
  Out("file_chunk", c, seq, m.otp, Missing, m.chunk, m.file_id, "false")

\* The message a file_chunk is forwarded as (lines 166-171).
ForwardChunk(c, seq, m) ==
  Out("file_chunk", c, seq, m.otp, Missing, m.chunk, m.file_id, IsLastOf(m))

\* file_chunk (lines 157-171).  The forwarded dict is built only when the
\* target is bound; building it raises KeyError when chunk or file_id is
\* absent.
FileChunk(c, m) ==
  /\ Receiving(c, m)
  /\ m.kind = "dict" /\ m.type = "file_chunk"
  /\ m.otp \in DOMAIN active_transfers
  /\ msgs' = msgs + 1
  /\ LET target == target_id(active_transfers[m.otp], ClientOf(c))
     IN IF target # None /\ (m.chunk = Missing \/ m.file_id = Missing)
          THEN /\ Crash(c)
               /\ UNCHANGED outbox
          ELSE /\ outbox' =
                    IF target # None
                      THEN send_personal_message(outbox, active_connections,
                             target, ForwardChunk(c, msgs + 1, m))
                      ELSE outbox
               /\ UNCHANGED <<active_connections, pc>>
  /\ UNCHANGED <<budget, client_id, now, active_transfers, clientClosed, pend, tasks, removals,
                 bg, issued>>

\* transfer_complete (lines 173-185).
TransferComplete(c, m) ==
  /\ Receiving(c, m)
  /\ m.kind = "dict" /\ m.type = "transfer_complete"
  /\ m.otp \in DOMAIN active_transfers
  /\ msgs' = msgs + 1
  /\ LET target == target_id(active_transfers[m.otp], ClientOf(c))
     IN outbox' =
          IF target # None
            THEN send_personal_message(outbox, active_connections, target,
                   Plain("transfer_complete", c, msgs + 1, m.otp))
            ELSE outbox
  /\ UNCHANGED <<budget, client_id, now, active_transfers, active_connections, pc, clientClosed,
                 pend, tasks, removals, bg, issued>>

\* A message no branch acts on: an unknown type, or a relay message whose
\* otp is not in the store.
Dropped(c, m) ==
  /\ Receiving(c, m)
  /\ m.kind = "dict"
  /\ \/ m.type \notin {"register_otp", "file_metadata", "file_chunk",
                       "transfer_complete"}
     \/ /\ m.type \in {"file_metadata", "file_chunk", "transfer_complete"}
        /\ m.otp \notin DOMAIN active_transfers
  /\ msgs' = msgs + 1
  /\ UNCHANGED <<budget, client_id, now, active_transfers, active_connections, pc, clientClosed,
                 pend, outbox, tasks, removals, bg, issued>>

\* A JSON value that is not an object: data.get raises AttributeError
\* (line 110), caught by except Exception.
NotAnObject(c, m) ==
  /\ Receiving(c, m)
  /\ m.kind # "dict"
  /\ msgs' = msgs + 1
  /\ Crash(c)
  /\ UNCHANGED <<budget, client_id, now, active_transfers, clientClosed, pend, outbox, tasks,
                 removals, bg, issued>>

\* The client closes the transport.
ClientClose(c) ==
  /\ pc[c] \in {"recv", "notify"}
  /\ ~clientClosed[c]
  /\ now + DelayTicks <= budget.horizon
  /\ clientClosed' = [clientClosed EXCEPT ![c] = TRUE]
  /\ UNCHANGED <<budget, client_id, now, active_transfers, active_connections, pc, pend, outbox,
                 tasks, removals, bg, issued, msgs>>

\* data['sender_id'] == client_id or data['receiver_id'] == client_id
Bound(s, client) == s.sender_id = client \/ s.receiver_id = client

\* A peer lookup that always takes the sender.
other_id_sender(s, client) == s.sender_id

\* data['receiver_id'] if data['sender_id'] == client_id else data['sender_id']
other_id(s, client) ==
  IF s.sender_id = client THEN s.receiver_id ELSE s.sender_id

\* The sessions the loop of line 190 schedules removal for.
BoundOtps(store, client) == {o \in DOMAIN store : Bound(store[o], client)}

\* The peer_disconnected tasks created at line 195.
PeerTasks(store, c) ==
  {[to |-> other_id(store[o], ClientOf(c)), otp |-> o, disc |-> c] :
     o \in {b \in BoundOtps(store, ClientOf(c)) :
              other_id(store[b], ClientOf(c)) # None}}

\* Removal tasks that do not sleep.
RemovalTasksNoDelay(store, c, t) ==
  {[otp |-> o, due |-> t, disc |-> c, inst |-> store[o].inst] :
     o \in BoundOtps(store, ClientOf(c))}

\* The remove_transfer_after_delay tasks created at line 201; inst tags the
\* session stored under the otp when the task was created.
RemovalTasks(store, c, t) ==
  {[otp |-> o, due |-> t + DelayTicks, disc |-> c, inst |-> store[o].inst] :
     o \in BoundOtps(store, ClientOf(c))}

\* except WebSocketDisconnect (lines 187-201).
Disconnect(c) ==
  /\ pc[c] = "recv"
  /\ clientClosed[c]
  /\ active_connections' = disconnect(active_connections, ClientOf(c))
  /\ tasks' = tasks \cup PeerTasks(active_transfers, c)
  /\ removals' = removals \cup RemovalTasks(active_transfers, c, now)
  /\ pc' = [pc EXCEPT ![c] = "done"]
  /\ UNCHANGED <<budget, client_id, now, active_transfers, clientClosed, pend, outbox, bg,
                 issued, msgs>>

\* A task of line 195 runs.
NotifyPeer(t) ==
  /\ t \in tasks
  /\ outbox' = send_personal_message(outbox, active_connections, t.to,
                 Plain("peer_disconnected", t.disc, 0, t.otp))
  /\ tasks' = tasks \ {t}
  /\ UNCHANGED <<budget, client_id, now, active_transfers, active_connections, pc, clientClosed,
                 pend, removals, bg, issued, msgs>>

\* A removal that is called off when a client is bound to the session.
remove_unless_bound(store, otp) ==
  IF otp \in DOMAIN store
       /\ store[otp].sender_id = None /\ store[otp].receiver_id = None
    THEN Del(store, otp)
    ELSE store

\* remove_transfer_after_delay after its sleep (lines 209-211).
remove_transfer_after_delay(store, otp) ==
  IF otp \in DOMAIN store THEN Del(store, otp) ELSE store

RemoveTransfer(r) ==
  /\ r \in removals
  /\ now >= r.due
  /\ active_transfers' = remove_transfer_after_delay(active_transfers, r.otp)
  /\ removals' = removals \ {r}
  /\ UNCHANGED <<budget, client_id, now, active_connections, pc, clientClosed, pend, outbox,
                 tasks, bg, issued, msgs>>

\* Time passes.  A sleep that is over wakes before the clock moves on, and
\* the clock stops where a pending disconnect could no longer schedule its
\* removal within the horizon.
Tick ==
  /\ now < budget.horizon
  /\ \A r \in removals : r.due > now
  /\ \A c \in Conns :
       (pc[c] \in {"recv", "notify"} /\ clientClosed[c])
         => now + 1 + DelayTicks <= budget.horizon
  /\ now' = now + 1
  /\ UNCHANGED <<budget, client_id, active_transfers, active_connections, pc,
                 clientClosed, pend, outbox, tasks, removals, bg, issued, msgs>>

Next ==
  \/ \E o \in OTPs : create_otp(o)
  \/ BackgroundCleanup
  \/ \E c \in Conns, id \in ClientIds : Connect(c, id)
  \/ \E c \in Conns, m \in Msgs :
       \/ RegisterUnknown(c, m)
       \/ RegisterSender(c, m)
       \/ RegisterReceiver(c, m)
       \/ FileMetadata(c, m)
       \/ FileChunk(c, m)
       \/ TransferComplete(c, m)
       \/ Dropped(c, m)
       \/ NotAnObject(c, m)
  \/ \E c \in Conns : NotifySender(c)
  \/ \E c \in Conns : ClientClose(c)
  \/ \E c \in Conns : Disconnect(c)
  \/ \E t \in tasks : NotifyPeer(t)
  \/ \E r \in removals : RemoveTransfer(r)
  \/ Tick

Spec == Init /\ [][Next]_vars

\* The event loop runs every task that is ready (a resumed handler, a
\* disconnect handler, a sleep that is over), and the clock advances.
FairSpec ==
  /\ Spec
  /\ WF_vars(Tick)
  /\ WF_vars(\E c \in Conns : NotifySender(c))
  /\ WF_vars(\E c \in Conns : Disconnect(c))
  /\ WF_vars(\E r \in removals : RemoveTransfer(r))

\* ===================================================================
\* Properties
\* ===================================================================

\* The session stored under o before a step is still stored after it.
Survives(o) ==
  /\ o \in DOMAIN active_transfers'
  /\ active_transfers'[o].inst = active_transfers[o].inst

\* The step runs cleanup_expired_transfers (in create_otp or as the
\* background task).
SweepStep == bg' # bg

\* The step is a create_otp that stores its new session under o.
Issues(o) ==
  /\ issued' # issued
  /\ o \in DOMAIN active_transfers'
  /\ active_transfers'[o].inst = issued'

\* C1: OTP issuance never stores its new session under an OTP that is a key
\* of the store: a session that is live (not past its deadline, so not swept
\* by the issuance) is never replaced by a newly issued one.
C1_NoLiveCollision ==
  [][\A o \in DOMAIN active_transfers :
       ~Expired(active_transfers[o], now) => ~Issues(o)]_vars

\* C2 as stated: a sweep at now < expires_at keeps the session, a sweep at
\* now >= expires_at (the deadline instant included) removes it.
C2_SweepAtOrPastDeadline ==
  [][SweepStep =>
       \A o \in DOMAIN active_transfers :
         /\ (now < active_transfers[o].expires_at /\ ~Issues(o)) => Survives(o)
         /\ now >= active_transfers[o].expires_at => ~Survives(o)]_vars

\* C2 amended: a sweep at now <= expires_at keeps the session (the deadline
\* instant included), a sweep at now > expires_at removes it.
C2_SweepPastDeadline ==
  [][SweepStep =>
       \A o \in DOMAIN active_transfers :
         /\ (now <= active_transfers[o].expires_at /\ ~Issues(o)) => Survives(o)
         /\ now > active_transfers[o].expires_at => ~Survives(o)]_vars

\* A session that a sweep met at its deadline instant and kept: the later
\* session was created, after a sweep, at the earlier one's expires_at.
C2_Witness ==
  \E o1, o2 \in DOMAIN active_transfers :
    /\ active_transfers[o1].inst < active_transfers[o2].inst
    /\ active_transfers[o2].expires_at - TtlTicks = active_transfers[o1].expires_at

\* Connection c is open: accepted, its loop running, its transport not closed.
Connected(c) == pc[c] \in {"recv", "notify"} /\ ~clientClosed[c]

\* A message sent to the client id reaches an open connection.
Reachable(client) ==
  /\ client \in DOMAIN active_connections
  /\ Connected(active_connections[client])

\* The step is connection c handling inbound message m.
Handles(c, m) ==
  \/ RegisterUnknown(c, m)
  \/ RegisterSender(c, m)
  \/ RegisterReceiver(c, m)
  \/ FileMetadata(c, m)
  \/ FileChunk(c, m)
  \/ TransferComplete(c, m)
  \/ Dropped(c, m)
  \/ NotAnObject(c, m)

\* The step writes exactly one message to connection w and none to any
\* other connection.
WritesOne(w) ==
  /\ Len(outbox'[w]) = Len(outbox[w]) + 1
  /\ outbox' = [outbox EXCEPT ![w] = Append(@, outbox'[w][Len(outbox'[w])])]

Written(w) == outbox'[w][Len(outbox'[w])]

\* The positions in the outbox of w of the receiver_connected messages that
\* connection c's registration number q caused.
Notices(w, c, q) ==
  {i \in DOMAIN outbox[w] :
     /\ outbox[w][i].type = "receiver_connected"
     /\ outbox[w][i].src = c
     /\ outbox[w][i].seq = q}

\* C3: a client registered as sender on an OTP, another client then
\* registered as receiver on it, the sender is still connected, the receiver
\* has not closed its connection, nobody re-registered as sender and the
\* receiver's handler is through with the registration: the sender has
\* received exactly one receiver_connected for it.
C3_ReceiverConnectedOnce ==
  \A a, c \in Conns : \A i \in DOMAIN outbox[a], j \in DOMAIN outbox[c] :
    LET s == outbox[a][i]
        r == outbox[c][j]
    IN ( /\ s.type = "otp_registered" /\ s.role = "sender"
         /\ r.type = "otp_registered" /\ r.role = "receiver"
         /\ s.otp = r.otp /\ s.seq < r.seq
         /\ client_id[a] # client_id[c]
         /\ Connected(a) /\ ~clientClosed[c]
         /\ pc[c] # "notify"
         /\ ~\E b \in Conns : \E k \in DOMAIN outbox[b] :
               /\ outbox[b][k].type = "otp_registered"
               /\ outbox[b][k].role = "sender"
               /\ outbox[b][k].otp = s.otp
               /\ outbox[b][k].seq > s.seq )
       => Cardinality(Notices(a, c, r.seq)) = 1

\* C4: a file_chunk on an existing session from the client bound as sender
\* goes to the client bound as receiver, and one from the receiver goes to
\* the sender: when the target is bound and reachable and the message has
\* chunk and file_id, exactly one file_chunk with the same chunk and file_id
\* and with is_last as sent (false when not sent) is written, to the
\* target's connection; when the target role is unbound nothing is written
\* to anyone and the sender's loop goes on.
C4_ChunkRelay ==
  [][\A c \in Conns, m \in ChunkMsgs :
       (Handles(c, m) /\ m.otp \in DOMAIN active_transfers) =>
         LET s == active_transfers[m.otp]
             RelayedTo(to) ==
               IF to = None
                 THEN outbox' = outbox /\ pc' = pc
                 ELSE (m.chunk # Missing /\ m.file_id # Missing /\ Reachable(to))
                        => /\ WritesOne(active_connections[to])
                           /\ Written(active_connections[to]).type = "file_chunk"
                           /\ Written(active_connections[to]).chunk = m.chunk
                           /\ Written(active_connections[to]).file_id = m.file_id
                           /\ Written(active_connections[to]).is_last =
                                (IF m.is_last = Missing THEN "false" ELSE m.is_last)
                           /\ pc' = pc
         IN /\ client_id[c] = s.sender_id => RelayedTo(s.receiver_id)
            /\ client_id[c] = s.receiver_id => RelayedTo(s.sender_id)]_vars

\* A chunk of the bound sender, flagged last, in the outbox of the bound
\* receiver's connection.
C4_Witness ==
  \E w \in Conns : \E i \in DOMAIN outbox[w] :
    LET e == outbox[w][i]
    IN /\ e.type = "file_chunk" /\ e.is_last = "true"
       /\ e.otp \in DOMAIN active_transfers
       /\ client_id[e.src] = active_transfers[e.otp].sender_id
       /\ client_id[w] = active_transfers[e.otp].receiver_id
       /\ client_id[w] # client_id[e.src]

\* The step is the WebSocketDisconnect handler of connection c.
DisconnectStep(c) == pc[c] = "recv" /\ clientClosed[c] /\ pc'[c] = "done"

PeerNotices(ob, w) ==
  Cardinality({i \in DOMAIN ob[w] : ob[w][i].type = "peer_disconnected"})

\* C5: the disconnect of a client creates, for each session it is bound to,
\* exactly one peer_disconnected notification for the other bound party and
\* none for a client that is not bound to that session; each notification is
\* written exactly once, to the connection of that party if it is reachable;
\* no other step creates or writes a peer_disconnected.
C5_PeerNotifiedOnce ==
  [][/\ \A c \in Conns : DisconnectStep(c) =>
          \A o \in DOMAIN active_transfers, p \in ClientIds :
            LET s == active_transfers[o]
                parties == {s.sender_id, s.receiver_id}
                n == Cardinality({t \in tasks' \ tasks :
                                    t.otp = o /\ t.to = p /\ t.disc = c})
            IN /\ (client_id[c] \in parties /\ p \in parties /\ p # client_id[c])
                    => n = 1
               /\ (client_id[c] \notin parties \/ p \notin parties) => n = 0
     /\ \A t \in tasks' \ tasks : DisconnectStep(t.disc)
     /\ \A t \in tasks \ tasks' :
          IF Reachable(t.to)
            THEN /\ WritesOne(active_connections[t.to])
                 /\ Written(active_connections[t.to]).type = "peer_disconnected"
                 /\ Written(active_connections[t.to]).src = t.disc
            ELSE outbox' = outbox
     /\ tasks \ tasks' = {} =>
          \A w \in Conns : PeerNotices(outbox', w) = PeerNotices(outbox, w)]_vars

\* A peer_disconnected in the outbox of a connection of another client than
\* the one that disconnected.
C5_Witness ==
  \E w \in Conns : \E i \in DOMAIN outbox[w] :
    /\ outbox[w][i].type = "peer_disconnected"
    /\ pc[outbox[w][i].src] = "done"
    /\ client_id[w] # client_id[outbox[w][i].src]

\* C6 as stated: after a bound client disconnected at time t (its removal
\* task r sleeps until r.due = t + grace delay), the OTP of the session it
\* was bound to stays in the store at every instant before t + grace delay,
\* and the task is never overdue.
C6_StaysUntilGraceEnds ==
  \A r \in removals :
    /\ now < r.due => r.otp \in DOMAIN active_transfers
    /\ now <= r.due

\* C6 amended: the disconnect of a bound client at time t schedules the
\* removal of each of its sessions for t + grace delay; that removal runs no
\* earlier, leaves the OTP absent, and is never overdue; before it, the
\* session leaves the store only through a sweep past its deadline, a
\* re-issue of its OTP or the removal task of another disconnect; every
\* scheduled removal eventually runs.
C6_GraceRemoval ==
  /\ [][/\ \A c \in Conns : DisconnectStep(c) =>
             \A o \in DOMAIN active_transfers :
               client_id[c] \in {active_transfers[o].sender_id,
                                 active_transfers[o].receiver_id}
                 => \E r \in removals' \ removals :
                      /\ r.otp = o /\ r.disc = c
                      /\ r.inst = active_transfers[o].inst
                      /\ r.due = now + DelayTicks
        /\ \A r \in removals \ removals' :
             now >= r.due /\ r.otp \notin DOMAIN active_transfers'
        /\ \A o \in DOMAIN active_transfers :
             ~Survives(o) =>
               \/ SweepStep /\ now > active_transfers[o].expires_at
               \/ Issues(o)
               \/ \E r \in removals \ removals' : r.otp = o]_vars
  /\ [](\A r \in removals : now <= r.due)
  /\ (removals # {}) ~> (removals = {})

\* A peer was told of a disconnect, every removal has run and the session
\* of that disconnect is gone.
C6_Witness ==
  /\ removals = {}
  /\ \E w \in Conns : \E i \in DOMAIN outbox[w] :
       /\ outbox[w][i].type = "peer_disconnected"
       /\ outbox[w][i].otp \notin DOMAIN active_transfers

\* C7: whatever ends the loop of a connection, each session its client is
\* bound to gets its removal scheduled and its other party a
\* peer_disconnected notification.
C7_EveryTerminationCleansUp ==
  [][\A c \in Conns : (pc[c] # "done" /\ pc'[c] = "done") =>
       \A o \in DOMAIN active_transfers :
         LET s == active_transfers[o]
             parties == {s.sender_id, s.receiver_id}
         IN client_id[c] \in parties =>
              /\ \E r \in removals' : r.otp = o /\ r.disc = c
              /\ \A p \in parties \ {None, client_id[c]} :
                   \E t \in tasks' : t.otp = o /\ t.disc = c /\ t.to = p]_vars

\* C8: no inbound message ends the loop of the connection it arrives on.
C8_NoMessageEndsLoop ==
  [][\A c \in Conns, m \in Msgs :
       (Handles(c, m) /\ m.kind = "dict") => pc'[c] # "done"]_vars

\* C9: a register_otp naming an otp that is not in the store writes exactly
\* one error to the connection it came from and nothing to any other, and
\* leaves the store, the registry and every loop as they were.
C9_UnknownOtp ==
  [][\A c \in Conns, m \in RegisterMsgs :
       (Handles(c, m) /\ m.otp \notin DOMAIN active_transfers) =>
         /\ WritesOne(c)
         /\ Written(c).type = "error"
         /\ active_transfers' = active_transfers
         /\ active_connections' = active_connections
         /\ pc' = pc]_vars

\* An error reply was written while a session was in the store.
C9_Witness ==
  /\ DOMAIN active_transfers # {}
  /\ \E c \in Conns : \E i \in DOMAIN outbox[c] :
       outbox[c][i].type = "error" /\ outbox[c][i].src = c

RelayTypes == {"file_incoming", "file_chunk", "transfer_complete"}

\* C10: in every outbox, the relayed messages that come from one connection
\* appear in the order in which that connection sent them.
C10_RelayOrder ==
  \A w \in Conns : \A i, j \in DOMAIN outbox[w] :
    ( /\ i < j
      /\ outbox[w][i].type \in RelayTypes
      /\ outbox[w][j].type \in RelayTypes
      /\ outbox[w][i].src = outbox[w][j].src )
    => outbox[w][i].seq < outbox[w][j].seq

\* Two relayed messages of one connection in one outbox.
C10_Witness ==
  \E w \in Conns : \E i, j \in DOMAIN outbox[w] :
    /\ i < j
    /\ outbox[w][i].type \in RelayTypes
    /\ outbox[w][j].type \in RelayTypes
    /\ outbox[w][i].src = outbox[w][j].src
    /\ outbox[w][i].src # w

\* C11: a scheduled removal stays scheduled through every step but its own
\* run (a registration as sender or receiver on its OTP included); its run
\* comes when its delay is over and leaves the OTP absent from the store,
\* whoever is bound to the session by then; and the OTP of every scheduled
\* removal does become absent.
C11_RemovalUnconditional ==
  /\ [][\A r \in removals :
          \/ r \in removals'
          \/ now = r.due /\ r.otp \notin DOMAIN active_transfers']_vars
  /\ \A o \in OTPs :
       (\E r \in removals : r.otp = o) ~> (o \notin DOMAIN active_transfers)

\* The one session ever issued is gone before any sweep could take it, so a
\* grace removal ran.  Connection c1, whose only registration was as sender,
\* is over; c2, of another client and still open, registered as sender on
\* the OTP later.  Had c2 registered before c1's disconnect, c1's client
\* would have been bound to nothing and no removal scheduled: c2 registered
\* within the grace window, and the removal ran all the same.
C11_Witness ==
  /\ issued = 1 /\ now <= TtlTicks /\ removals = {}
  /\ \E c1, c2 \in Conns, o \in OTPs :
       /\ o \notin DOMAIN active_transfers
       /\ pc[c1] = "done" /\ Connected(c2)
       /\ client_id[c1] # client_id[c2]
       /\ Len(outbox[c1]) = 1
       /\ outbox[c1][1].type = "otp_registered" /\ outbox[c1][1].role = "sender"
       /\ outbox[c1][1].otp = o
       /\ \E j \in DOMAIN outbox[c2] :
            /\ outbox[c2][j].type = "otp_registered"
            /\ outbox[c2][j].role = "sender"
            /\ outbox[c2][j].otp = o
            /\ outbox[c2][j].seq > outbox[c1][1].seq

\* C12: while an OTP stays a key of the store (it is not taken by a sweep
\* past its deadline), a step that handles a file_metadata for it carrying
\* a metadata record appends exactly that record at the end of files, and
\* every other step leaves files as it was.
C12_FilesAppendOnly ==
  [][\A o \in DOMAIN active_transfers \cap DOMAIN active_transfers' :
       LET f == active_transfers[o].files
           g == active_transfers'[o].files
       IN (~(SweepStep /\ Expired(active_transfers[o], now))) =>
            IF \E c \in Conns, m \in MetadataMsgs :
                 Handles(c, m) /\ m.otp = o /\ m.metadata # Missing
              THEN \E md \in {"x.txt"} : g = Append(f, md)
              ELSE g = f]_vars

\* C13: right after a create_otp has stored its session, the store holds no
\* session whose expires_at is earlier than the time of that issuance (the
\* time at which its sweep ran).
C13_SweptBeforeIssue ==
  [][issued' # issued =>
       \A o \in DOMAIN active_transfers' :
         ~(active_transfers'[o].expires_at < now)]_vars

\* The second issuance stored its session under a fresh OTP and the first
\* session is gone, while no background sweep has run (every one of them is
\* still pending) and no connection has ended (so no removal was scheduled):
\* the sweep of the second issuance took the first session.
C13_Witness ==
  /\ issued = 2 /\ bg = 2 /\ removals = {}
  /\ \A c \in Conns : pc[c] # "done"
  /\ DOMAIN active_transfers = {2}
  /\ active_transfers[2].inst = 2

\* The step leaves outboxes, registry and loops as they were.
NothingSent ==
  /\ outbox' = outbox
  /\ active_connections' = active_connections
  /\ pc' = pc

\* C14: a send to a peer that is not reachable (its client id is not in the
\* registry, or the transport of its registered connection fails) writes
\* nothing and changes neither the registry (the failed peer's entry stays)
\* nor the store (but for the record a file_metadata appends), and the loop
\* of the connection whose message was being relayed goes on; this for the
\* relay of file_chunk, transfer_complete and file_metadata, for the
\* receiver_connected notice and for peer_disconnected.  Nothing is sent
\* again later: a relayed message is written only by the step that handles
\* the inbound message it comes from.
C14_BestEffortDelivery ==
  [][/\ \A c \in Conns, m \in ChunkMsgs \cup CompleteMsgs :
          (Handles(c, m) /\ m.otp \in DOMAIN active_transfers) =>
            LET target == target_id(active_transfers[m.otp], client_id[c])
            IN ( /\ target # None /\ ~Reachable(target)
                 /\ m.type = "file_chunk" =>
                      (m.chunk # Missing /\ m.file_id # Missing) )
                 => NothingSent /\ active_transfers' = active_transfers
     /\ \A c \in Conns, m \in MetadataMsgs :
          (Handles(c, m) /\ m.otp \in DOMAIN active_transfers) =>
            LET receiver_id == active_transfers[m.otp].receiver_id
            IN (receiver_id # None /\ ~Reachable(receiver_id)
                  /\ m.metadata # Missing)
                 => /\ NothingSent
                    /\ active_transfers' =
                         [active_transfers EXCEPT
                            ![m.otp].files = Append(@, m.metadata)]
     /\ \A c \in Conns :
          ( /\ pc[c] = "notify" /\ pc'[c] # "notify"
            /\ pend[c].otp \in DOMAIN active_transfers ) =>
            LET sender_id == active_transfers[pend[c].otp].sender_id
            IN (sender_id # None /\ ~Reachable(sender_id))
                 => /\ outbox' = outbox
                    /\ active_connections' = active_connections
                    /\ active_transfers' = active_transfers
                    /\ pc' = [pc EXCEPT ![c] = "recv"]
     /\ \A t \in tasks \ tasks' :
          ~Reachable(t.to) => NothingSent /\ active_transfers' = active_transfers
     /\ \A w \in Conns :
          \A i \in (DOMAIN outbox'[w]) \ (DOMAIN outbox[w]) :
            outbox'[w][i].type \in RelayTypes
              => msgs' = msgs + 1 /\ outbox'[w][i].seq = msgs']_vars

\* The second and last message was a file_metadata of connection c1, after
\* c2 had registered as receiver with the first: c2's client had closed its
\* transport by then (c2 is still registered, its disconnect handler has not
\* run), for the file_incoming did not reach c2; the record is stored and
\* c1's loop goes on.
C14_Witness ==
  /\ msgs = 2
  /\ \E c1, c2 \in Conns, o \in DOMAIN active_transfers :
       /\ client_id[c1] # client_id[c2]
       /\ active_transfers[o].files # <<>>
       /\ active_transfers[o].receiver_id = client_id[c2]
       /\ clientClosed[c2] /\ pc[c2] = "recv"
       /\ client_id[c2] \in DOMAIN active_connections
       /\ active_connections[client_id[c2]] = c2
       /\ Len(outbox[c2]) = 1
       /\ outbox[c2][1].type = "otp_registered"
       /\ outbox[c2][1].role = "receiver"
       /\ outbox[c2][1].otp = o /\ outbox[c2][1].seq = 1
       /\ pc[c1] = "recv" /\ ~clientClosed[c1]

\* C15: a file_chunk or transfer_complete on a session from a connection
\* whose client is bound to it neither as sender nor as receiver is written
\* to no connection.
C15_ForwardOnlyFromBound ==
  [][\A c \in Conns, m \in ChunkMsgs \cup CompleteMsgs :
       ( /\ Handles(c, m)
         /\ m.otp \in DOMAIN active_transfers
         /\ ~Bound(active_transfers[m.otp], client_id[c]) )
       => outbox' = outbox]_vars

\* C16: a register_otp(receiver) handler that is suspended in its
\* otp_registered reply resumes without error whatever has happened to the
\* session in between: its loop goes on to the next receive.
C16_HandlerSurvivesRemoval ==
  [][\A c \in Conns :
       (pc[c] = "notify" /\ pc'[c] # "notify") => pc'[c] = "recv"]_vars

\* Connection c was the last to register under its client id (connections
\* are accepted in the order of their numbers).
MostRecent(c) ==
  \A d \in Conns : (d > c /\ pc[d] # "new") => client_id[d] # client_id[c]

\* C17: a connection that is open and was the most recent to register under
\* its client id has the entry of that client id in the registry.
C17_RegistryFollowsLive ==
  \A c \in Conns :
    (Connected(c) /\ MostRecent(c)) =>
      /\ client_id[c] \in DOMAIN active_connections
      /\ active_connections[client_id[c]] = c

\* C18: a register_otp handled at a time later than the expires_at of the
\* session under its otp (swept or not) binds no role and gets no
\* otp_registered reply.
C18_NoBindingPastDeadline ==
  [][\A c \in Conns, m \in RegisterMsgs :
       ( /\ Handles(c, m)
         /\ m.otp \in DOMAIN active_transfers
         /\ now > active_transfers[m.otp].expires_at )
       => /\ active_transfers' = active_transfers
          /\ \A i \in (DOMAIN outbox'[c]) \ (DOMAIN outbox[c]) :
               outbox'[c][i].type # "otp_registered"]_vars

\* C19: the run of a removal task deletes nothing but the session that was
\* stored under its OTP when the task was scheduled: a session issued later
\* under the same OTP is still there after the run.
C19_RemovesOnlyItsInstance ==
  [][\A r \in removals \ removals' :
       \A o \in DOMAIN active_transfers :
         active_transfers[o].inst # r.inst => Survives(o)]_vars

\* C20: a step that handles a file_chunk or a transfer_complete writes to no
\* connection of the client that sent it, also when that client is bound
\* both as sender and as receiver of the session.
C20_NoEcho ==
  [][\A c \in Conns, m \in ChunkMsgs \cup CompleteMsgs :
       Handles(c, m) =>
         \A w \in Conns :
           outbox'[w] # outbox[w] => client_id[w] # client_id[c]]_vars

====
